---------------------------- MODULE Spec2Model ----------------------------
(***************************************************************************)
(* Model of the Blender add-on "Pipe Flat Pattern Generator"               *)
(* (src/Blender add-on/pipe_template_generator.py).                        *)
(*                                                                         *)
(* One generation run is PIPE_OT_GenerateTemplate.execute: output-folder   *)
(* validation, create_pipe_segment, unwrap_pipe_segment, extract_uv_data   *)
(* and generate_pdf, which picks one of four page layouts and saves one    *)
(* PDF document.  The state is the property group, the filesystem around   *)
(* the output folder, Blender's scene data, the position inside execute,   *)
(* the messages reported so far and the PDF canvas.                        *)
(*                                                                         *)
(* Python floats are modelled as exact rationals [n, d] in lowest terms.   *)
(* Lengths are in millimetres until the code multiplies them by            *)
(* reportlab's mm, which turns them into points.                           *)
(***************************************************************************)
EXTENDS Integers, Sequences, FiniteSets, TLC

VARIABLES
    props,          \* context.scene.pipe_template_props
    disk,           \* the filesystem at and below the output folder
    env,            \* what the installation provides (reportlab importable)
    scene,          \* bpy.data.objects and bpy.data.meshes
    pc,             \* position inside execute / generate_pdf
    result,         \* the set execute returns: "FINISHED", "CANCELLED" or "NONE" while running
    reports,        \* the levels passed to self.report in this run, in order
    segment_obj,    \* the object created by create_pipe_segment in this run
    polygons,       \* per-face UV polygons in the active UV layer of the mesh
    uv_data,        \* first value returned by extract_uv_data
    boundary_data,  \* second value returned by extract_uv_data
    canvas,         \* the reportlab canvas built by generate_pdf
    runs,           \* number of runs started so far
    emitted,        \* one record per run that saved a document: file name, spec,
                    \* the wrap dimensions handed to generate_pdf and the pages drawn
    start,          \* the disk and the scene as they were when this run started
    failed_at       \* the step whose exception ended this run, "" if none

vars == <<props, disk, env, scene, pc, result, reports, segment_obj, polygons,
          uv_data, boundary_data, canvas, runs, emitted, start, failed_at>>

-----------------------------------------------------------------------------
(* Float arithmetic: exact rationals in lowest terms, d > 0.               *)

Abs(x) == IF x < 0 THEN -x ELSE x

RECURSIVE GCD(_, _)
GCD(a, b) == IF b = 0 THEN a ELSE GCD(b, a % b)

Rat(n, d) ==
    LET g == GCD(Abs(n), d)
    IN  [n |-> n \div g, d |-> d \div g]

Num(k) == [n |-> k, d |-> 1]

RMul(a, b) ==
    LET g1 == GCD(Abs(a.n), b.d)
        g2 == GCD(Abs(b.n), a.d)
    IN  [n |-> (a.n \div g1) * (b.n \div g2), d |-> (a.d \div g2) * (b.d \div g1)]

RAdd(a, b) ==
    LET g == GCD(a.d, b.d)
    IN  Rat(a.n * (b.d \div g) + b.n * (a.d \div g), (a.d \div g) * b.d)

RNeg(a) == [n |-> -a.n, d |-> a.d]

RSub(a, b) == RAdd(a, RNeg(b))

\* a / b for b # 0
RDiv(a, b) ==
    IF b.n > 0 THEN RMul(a, [n |-> b.d, d |-> b.n])
               ELSE RMul(a, [n |-> -b.d, d |-> -b.n])

RLt(a, b) ==
    LET g == GCD(a.d, b.d)
    IN  a.n * (b.d \div g) < b.n * (a.d \div g)

RLe(a, b) == ~RLt(b, a)

RGt(a, b) == RLt(b, a)

\* math.pi, as the rational 355/113
PI == [n |-> 355, d |-> 113]

\* math.radians(x) = x * pi / 180
radians(x) == RDiv(RMul(x, PI), Num(180))

\* reportlab.lib.units.mm: points per millimetre, 72 / 25.4 = 360/127
mm == [n |-> 360, d |-> 127]


-----------------------------------------------------------------------------
(* PipeTemplateProperties: the hard limits Blender clamps each property to. *)

pipe_od_min == Num(10)
pipe_od_max == Num(500)
bend_radius_multiplier_min == Rat(1, 2)
bend_radius_multiplier_max == Num(10)
bend_angle_min == Num(1)
bend_angle_max == Num(360)
num_segments_min == 1
num_segments_max == 20
wrap_thickness_min == Rat(1, 10)
wrap_thickness_max == Num(50)
overlap_min == Num(0)
overlap_max == Num(50)

InRange(x, lo, hi) == RLe(lo, x) /\ RLe(x, hi)

\* A property group value the UI can hold.
PipeTemplateProperties(p) ==
    /\ InRange(p.pipe_od, pipe_od_min, pipe_od_max)
    /\ InRange(p.bend_radius_multiplier, bend_radius_multiplier_min, bend_radius_multiplier_max)
    /\ InRange(p.bend_angle, bend_angle_min, bend_angle_max)
    /\ p.num_segments \in num_segments_min..num_segments_max
    /\ InRange(p.wrap_thickness, wrap_thickness_min, wrap_thickness_max)
    /\ InRange(p.overlap, overlap_min, overlap_max)

\* The six parameters of a property group, without the output folder.
PipeSpec(p) ==
    [pipe_od |-> p.pipe_od, bend_radius_multiplier |-> p.bend_radius_multiplier,
     bend_angle |-> p.bend_angle, num_segments |-> p.num_segments,
     wrap_thickness |-> p.wrap_thickness, overlap |-> p.overlap]

-----------------------------------------------------------------------------
(* create_pipe_segment: the mesh.  A vertex is numbered in the order of    *)
(* its creation, ring after ring; its position is kept in cylindrical form *)
(* about the bend axis: (vert_x, vert_y) = radius * (cos angle, sin angle) *)
(* with radius = bend_centerline_radius + pipe_radius * cos(theta), and    *)
(* vert_z = pipe_radius * sin(theta).                                      *)

\* cross-sections along the curve, vertices around the circle
angular_resolution == 12
radial_resolution == 32

\* 10000 * sin(k * 2 * pi / 32) for k = 0..8, to four decimals
sin_table == <<0, 1951, 3827, 5556, 7071, 8315, 9239, 9808, 10000>>

\* math.sin(theta) and math.cos(theta) for theta = (j / 32) * 2 * math.pi
sin32(j) ==
    LET q == j % 32
    IN  IF q <= 8 THEN Rat(sin_table[q + 1], 10000)
        ELSE IF q <= 16 THEN Rat(sin_table[16 - q + 1], 10000)
        ELSE IF q <= 24 THEN Rat(-sin_table[q - 16 + 1], 10000)
        ELSE Rat(-sin_table[32 - q + 1], 10000)

cos32(j) == sin32(j + 8)

\* mutation of face_of: faces are built inside one ring
face_in_one_ring(all_rings, i, j) ==
    LET next_j == (j + 1) % radial_resolution
        j2 == (j + 2) % radial_resolution
        j3 == (j + 3) % radial_resolution
    IN  << all_rings[i + 1][j + 1], all_rings[i + 1][next_j + 1],
           all_rings[i + 1][j2 + 1], all_rings[i + 1][j3 + 1] >>

\* bm.faces.new([v1, v2, v3, v4]) for ring i and position j
face_of(all_rings, i, j) ==
    LET next_j == (j + 1) % radial_resolution
    IN  << all_rings[i + 1][j + 1], all_rings[i + 1][next_j + 1],
           all_rings[i + 2][next_j + 1], all_rings[i + 2][j + 1] >>

\* mutation of end_rad_of: the mesh spans the whole bend
end_rad_of_whole_bend(p) == radians(p.bend_angle)

\* the end angle of the segment built, in radians
end_rad_of(p) == radians(RDiv(p.bend_angle, Num(p.num_segments)))

\* the rings of vertices appended by the loops of lines 177-203; a vertex
\* is named by its place in the order of the bm.verts.new calls
ring_verts_of ==
    [i \in 1..(angular_resolution + 1) |->
       [j \in 1..radial_resolution |-> (i - 1) * radial_resolution + (j - 1)]]

\* the faces made by the loops of lines 206-216, in the order made
faces_of ==
    [f \in 1..((Len(ring_verts_of) - 1) * radial_resolution) |->
       face_of(ring_verts_of, (f - 1) \div radial_resolution, (f - 1) % radial_resolution)]

\* the bmesh create_pipe_segment writes into the new mesh datablock
PipeMesh(p) ==
    LET bend_centerline_radius == RMul(p.pipe_od, p.bend_radius_multiplier)
        pipe_radius == RDiv(p.pipe_od, Num(2))
        angle_step == RDiv(RSub(end_rad_of(p), Num(0)), Num(angular_resolution))
        current_angle == [i \in 0..angular_resolution |-> RMul(Num(i), angle_step)]
        radius == [j \in 0..(radial_resolution - 1) |->
                     RAdd(bend_centerline_radius, RMul(pipe_radius, cos32(j)))]
        vert_z == [j \in 0..(radial_resolution - 1) |-> RMul(pipe_radius, sin32(j))]
    IN  [verts |-> [id \in 0..((angular_resolution + 1) * radial_resolution - 1) |->
                      [angle |-> current_angle[id \div radial_resolution],
                       radius |-> radius[id % radial_resolution],
                       z |-> vert_z[id % radial_resolution]]],
         all_rings |-> ring_verts_of,
         faces |-> faces_of,
         seam |-> {}]

-----------------------------------------------------------------------------
(* unwrap_pipe_segment: the seam.                                          *)

RAbs(a) == [n |-> Abs(a.n), d |-> a.d]

\* math.sqrt(v.co.x**2 + v.co.y**2)
xy_radius(v) == RAbs(v.radius)

\* the loop "if radius < min_radius: min_radius = radius" over bm.verts:
\* the least of the radii
min_radius_of(verts) ==
    LET radii == {xy_radius(verts[id]) : id \in DOMAIN verts}
    IN  CHOOSE m \in radii : \A x \in radii : RLe(m, x)

\* mutation of on_seam: the radius test is left out
on_ground_plane(v, min_radius) == RLt(RAbs(v.z), Rat(1, 2))

\* both tests a vertex of a seam edge passes: Z within z_tolerance of the
\* ground plane and radius within radius_tolerance of the minimum
on_seam(v, min_radius) ==
    /\ RLt(RAbs(v.z), Rat(1, 2))
    /\ RLt(RAbs(RSub(xy_radius(v), min_radius)), Num(1))

\* bm.edges: the sides of the faces, as unordered pairs of vertices
face_edges(face) == {{face[k], face[(k % 4) + 1]} : k \in 1..4}

\* the edges with edge.seam = True after the marking loop: those of
\* bm.edges whose two vertices both pass the tests
marked_seam(mesh) ==
    LET min_radius == min_radius_of(mesh.verts)
        hit == {id \in DOMAIN mesh.verts : on_seam(mesh.verts[id], min_radius)}
        touched == {f \in DOMAIN mesh.faces : \E k \in 1..4 : mesh.faces[f][k] \in hit}
    IN  UNION {{e \in face_edges(mesh.faces[f]) : e \subseteq hit} : f \in touched}

-----------------------------------------------------------------------------
(* extract_uv_data, second half: the dimension calculator.                 *)

segment_angle_of(p) == RDiv(p.bend_angle, Num(p.num_segments))

wrap_radius_of(p) == RAdd(RDiv(p.pipe_od, Num(2)), p.wrap_thickness)

\* mutation of wrap_distance_of: the wrap thickness is left out
wrap_distance_without_thickness(p) == RMul(p.pipe_od, p.bend_radius_multiplier)

wrap_distance_of(p) == RAdd(RMul(p.pipe_od, p.bend_radius_multiplier), p.wrap_thickness)

Dimensions(p) ==
    LET bend_centerline_radius == RMul(p.pipe_od, p.bend_radius_multiplier)
        segment_angle_rad == radians(segment_angle_of(p))
        base_circ == RMul(PI, p.pipe_od)
        base_arc == RMul(bend_centerline_radius, segment_angle_rad)
        wrap_circ == RMul(RMul(Num(2), PI), wrap_radius_of(p))
        wrap_width == RAdd(wrap_circ, p.overlap)
        wrap_arc == RMul(wrap_distance_of(p), segment_angle_rad)
    IN  [pipe_circ_mm |-> base_circ, pipe_arc_mm |-> base_arc,
         wrap_width |-> wrap_width, wrap_arc_length |-> wrap_arc,
         overlap |-> p.overlap]

-----------------------------------------------------------------------------
(* extract_uv_data, first half: bounds and boundary edges of the UV        *)
(* polygons.  A UV point is a pair <<u, v>> of integers (grid units).      *)

\* Python's tuple order, used by sorted([v1, v2])
TupleLe(a, b) == a[1] < b[1] \/ (a[1] = b[1] /\ a[2] <= b[2])

\* mutation of edge_sorted: the key keeps the direction of the edge
edge_directed(e) == e

\* tuple(sorted([v1, v2])): the undirected key of an edge
edge_sorted(e) == IF TupleLe(e[1], e[2]) THEN e ELSE <<e[2], e[1]>>

\* the directed edges (v1, v2) of one polygon, wraparound included
PolyEdges(poly) == [i \in 1..Len(poly) |-> <<poly[i], poly[(i % Len(poly)) + 1]>>]

RECURSIVE AllEdges(_)
AllEdges(polys) ==
    IF polys = <<>> THEN <<>> ELSE PolyEdges(Head(polys)) \o AllEdges(Tail(polys))

\* edge_count[key] once every polygon is processed
edge_count(es, key) == Cardinality({i \in 1..Len(es) : edge_sorted(es[i]) = key})

\* whether es[i] is the entry edge_order keeps for its key (the first one seen)
FirstSeen(es, i) == \A j \in 1..(i - 1) : edge_sorted(es[j]) # edge_sorted(es[i])

\* the list comprehension over edge_count.items(): keys in insertion order
RECURSIVE BoundaryFrom(_, _)
BoundaryFrom(es, i) ==
    IF i > Len(es) THEN <<>>
    ELSE IF FirstSeen(es, i) /\ edge_count(es, edge_sorted(es[i])) = 1
         THEN <<es[i]>> \o BoundaryFrom(es, i + 1)
         ELSE BoundaryFrom(es, i + 1)

boundary_edges_of(polys) == BoundaryFrom(AllEdges(polys), 1)

\* all_uvs = [uv for poly in polygons for uv in poly]
all_uvs(polys) == UNION {{polys[i][j] : j \in 1..Len(polys[i])} : i \in 1..Len(polys)}

SetMin(S) == CHOOSE x \in S : \A y \in S : x <= y

SetMax(S) == CHOOSE x \in S : \A y \in S : x >= y

\* min_u, max_u, min_v, max_v over every polygon vertex
UvBounds(polys) ==
    [min_u |-> SetMin({uv[1] : uv \in all_uvs(polys)}),
     max_u |-> SetMax({uv[1] : uv \in all_uvs(polys)}),
     min_v |-> SetMin({uv[2] : uv \in all_uvs(polys)}),
     max_v |-> SetMax({uv[2] : uv \in all_uvs(polys)})]


-----------------------------------------------------------------------------
(* generate_pdf: page geometry (points), layout decision and file name.    *)

\* landscape(A4) = (297 * mm, 210 * mm)
page_w == RMul(Num(297), mm)
page_h == RMul(Num(210), mm)
margin == RMul(Num(6), mm)
title_space == RMul(Num(30), mm)
scale_space == RMul(Num(20), mm)
available_width == RSub(page_w, RMul(Num(2), margin))
available_height ==
    RSub(RSub(RSub(page_h, title_space), scale_space), RMul(Num(2), margin))

\* mm overlap for joining pages when splitting horizontally
split_overlap == 20

template_spacing == RMul(Num(15), mm)

needs_width_split(wrap_w) == RGt(wrap_w, RDiv(available_width, mm))

total_height_needed(wrap_h) == RAdd(RMul(RMul(Num(2), wrap_h), mm), template_spacing)

\* mutation of fits_height: < where the code has <=
fits_height_strict(wrap_h) == RLt(total_height_needed(wrap_h), available_height)

fits_height(wrap_h) == RLe(total_height_needed(wrap_h), available_height)

\* mutation of LayoutMode: a single-segment spec always gets one copy per page
LayoutMode_by_segments(wrap_w, wrap_h) ==
    IF props.num_segments = 1 THEN "SINGLE_MULTIPAGE"
    ELSE IF needs_width_split(wrap_w)
    THEN IF fits_height(wrap_h) THEN "SPLIT_SAME_PAGE" ELSE "SPLIT_SEPARATE_PAGES"
    ELSE IF fits_height(wrap_h) THEN "SINGLE_PAGE_STACKED" ELSE "SINGLE_MULTIPAGE"

\* the branch of generate_pdf taken, named after the layout it produces
LayoutMode(wrap_w, wrap_h) ==
    IF needs_width_split(wrap_w)
    THEN IF fits_height(wrap_h) THEN "SPLIT_SAME_PAGE" ELSE "SPLIT_SEPARATE_PAGES"
    ELSE IF fits_height(wrap_h) THEN "SINGLE_PAGE_STACKED" ELSE "SINGLE_MULTIPAGE"

\* round(x) to the nearest integer, ties to even, for x >= 0
RoundHalfEven(x) ==
    LET q == x.n \div x.d
        r == x.n % x.d
    IN  IF 2 * r < x.d THEN q
        ELSE IF 2 * r > x.d THEN q + 1
        ELSE IF q % 2 = 0 THEN q ELSE q + 1

\* f"{x:.1f}" and f"{x:.2f}": the digits printed, as a count of tenths / hundredths
Fmt1(x) == RoundHalfEven(RMul(x, Num(10)))
Fmt2(x) == RoundHalfEven(RMul(x, Num(100)))

\* f"{x:.0f}": the whole number printed
Fmt0(x) == RoundHalfEven(x)

\* f"exhaust_wrap_OD{od:.1f}_CLR{clr:.1f}_S{segments}_O{overlap:.1f}_MT{mat_thickness:.2f}.pdf"
filename(p) ==
    [OD |-> Fmt1(p.pipe_od), CLR |-> Fmt1(p.bend_radius_multiplier),
     S |-> p.num_segments, O |-> Fmt1(p.overlap), MT |-> Fmt2(p.wrap_thickness)]

-----------------------------------------------------------------------------
(* The four layout paths.  Each returns the pages it draws; a page is the  *)
(* sequence of sections placed on it.  A section records the x-range of    *)
(* the template it shows (mm), where its origin is put on the page (pt),   *)
(* the c.line calls made for the base and for the wrap outline, one entry  *)
(* per boundary edge (None where the edge is skipped), and for a half the  *)
(* dashed centerline and the overlap-zone rectangle.  The argument g holds *)
(* what generate_pdf reads from boundary_data and uv_data: boundary_edges, *)
(* min_u, max_u, min_v, max_v, base_w, base_h.                             *)

None == [none |-> TRUE]

Section(label, half, x_start, x_end, template_x, template_y) ==
    [label |-> label, half |-> half, x_start |-> x_start, x_end |-> x_end,
     template_x |-> template_x, template_y |-> template_y]

center_w_of(wrap_w) == RDiv(wrap_w, Num(2))

\* (x - lo) / (hi - lo) if (hi - lo) > 0 else 0
norm(x, lo, hi) == IF hi - lo > 0 THEN Rat(x - lo, hi - lo) ELSE Num(0)

\* c.line(x1_pt, y1_pt, x2_pt, y2_pt)
Line(x1_pt, y1_pt, x2_pt, y2_pt) == [x1 |-> x1_pt, y1 |-> y1_pt, x2 |-> x2_pt, y2 |-> y2_pt]

\* One outline loop of _generate_single_page and _draw_single_template_page:
\* target is the base size with the centring offset, or the wrap size with
\* offset 0.
full_outline(g, target_w, target_h, offset_x, offset_y, template_x, template_y) ==
    [k \in DOMAIN g.boundary_edges |->
        LET edge == g.boundary_edges[k]
            u1_norm == norm(edge[1][1], g.min_u, g.max_u)
            v1_norm == norm(edge[1][2], g.min_v, g.max_v)
            u2_norm == norm(edge[2][1], g.min_u, g.max_u)
            v2_norm == norm(edge[2][2], g.min_v, g.max_v)
            x1_mm == RMul(v1_norm, target_w)
            y1_mm == RMul(u1_norm, target_h)
            x2_mm == RMul(v2_norm, target_w)
            y2_mm == RMul(u2_norm, target_h)
        IN  Line(RAdd(template_x, RMul(RAdd(offset_x, x1_mm), mm)),
                 RAdd(template_y, RMul(RAdd(offset_y, y1_mm), mm)),
                 RAdd(template_x, RMul(RAdd(offset_x, x2_mm), mm)),
                 RAdd(template_y, RMul(RAdd(offset_y, y2_mm), mm)))]

\* mutation of clip_to_section: an edge spanning the whole section with
\* both endpoints outside is skipped
clip_endpoints_only(x1_mm, x2_mm, x_start, x_end) ==
    \/ RLe(x_start, x1_mm) /\ RLe(x1_mm, x_end)
    \/ RLe(x_start, x2_mm) /\ RLe(x2_mm, x_end)

\* the "Clip to section" condition of _draw_split_half and _draw_split_page
clip_to_section(x1_mm, x2_mm, x_start, x_end) ==
    \/ RLe(x_start, x1_mm) /\ RLe(x1_mm, x_end)
    \/ RLe(x_start, x2_mm) /\ RLe(x2_mm, x_end)
    \/ RLt(x1_mm, x_start) /\ RGt(x2_mm, x_end)
    \/ RLt(x2_mm, x_start) /\ RGt(x1_mm, x_end)

\* mutation of split_outline: the outline is not shifted by the centring offset
split_outline_without_offset(g, target_w, target_h, offset_x, offset_y, x_start, x_end, template_x, template_y) ==
    [k \in DOMAIN g.boundary_edges |->
        LET edge == g.boundary_edges[k]
            x1_mm == RMul(norm(edge[1][2], g.min_v, g.max_v), target_w)
            y1_mm == RMul(norm(edge[1][1], g.min_u, g.max_u), target_h)
            x2_mm == RMul(norm(edge[2][2], g.min_v, g.max_v), target_w)
            y2_mm == RMul(norm(edge[2][1], g.min_u, g.max_u), target_h)
        IN  IF clip_to_section(x1_mm, x2_mm, x_start, x_end)
            THEN Line(RAdd(template_x, RMul(RSub(x1_mm, x_start), mm)),
                      RAdd(template_y, RMul(y1_mm, mm)),
                      RAdd(template_x, RMul(RSub(x2_mm, x_start), mm)),
                      RAdd(template_y, RMul(y2_mm, mm)))
            ELSE None]

\* One outline loop of _draw_split_half and _draw_split_page.
split_outline(g, target_w, target_h, offset_x, offset_y, x_start, x_end, template_x, template_y) ==
    [k \in DOMAIN g.boundary_edges |->
        LET edge == g.boundary_edges[k]
            u1_norm == norm(edge[1][1], g.min_u, g.max_u)
            v1_norm == norm(edge[1][2], g.min_v, g.max_v)
            u2_norm == norm(edge[2][1], g.min_u, g.max_u)
            v2_norm == norm(edge[2][2], g.min_v, g.max_v)
            x1_mm == RAdd(RMul(v1_norm, target_w), offset_x)
            y1_mm == RAdd(RMul(u1_norm, target_h), offset_y)
            x2_mm == RAdd(RMul(v2_norm, target_w), offset_x)
            y2_mm == RAdd(RMul(u2_norm, target_h), offset_y)
        IN  IF clip_to_section(x1_mm, x2_mm, x_start, x_end)
            THEN Line(RAdd(template_x, RMul(RSub(x1_mm, x_start), mm)),
                      RAdd(template_y, RMul(y1_mm, mm)),
                      RAdd(template_x, RMul(RSub(x2_mm, x_start), mm)),
                      RAdd(template_y, RMul(y2_mm, mm)))
            ELSE None]

\* the two outlines of a full template placed at (template_x, template_y)
full_template(g, wrap_w, wrap_h, template_x, template_y) ==
    LET base_offset_x == RDiv(RSub(wrap_w, g.base_w), Num(2))
        base_offset_y == RDiv(RSub(wrap_h, g.base_h), Num(2))
    IN  [base_lines |-> full_outline(g, g.base_w, g.base_h, base_offset_x, base_offset_y,
                                     template_x, template_y),
         wrap_lines |-> full_outline(g, wrap_w, wrap_h, Num(0), Num(0),
                                     template_x, template_y),
         centerline |-> None, overlap_zone |-> None]

\* mutation of overlap_zone_of: the rectangle of the left half starts at
\* the cut edge instead of ending there
overlap_zone_past_cut_edge(wrap_w, wrap_h, x_start, template_x, template_y, is_left) ==
    LET overlap_x == IF is_left
                     THEN RAdd(template_x,
                               RMul(RSub(RAdd(center_w_of(wrap_w), Num(split_overlap)), x_start), mm))
                     ELSE template_x
    IN  [x |-> overlap_x, y |-> template_y,
         width |-> RMul(Num(split_overlap), mm), height |-> RMul(wrap_h, mm)]

\* c.rect(x, y, width, height) of the overlap zone marker
overlap_zone_of(wrap_w, wrap_h, x_start, template_x, template_y, is_left) ==
    LET overlap_x == IF is_left
                     THEN RAdd(template_x,
                               RMul(RSub(RAdd(center_w_of(wrap_w), Num(split_overlap)), x_start), mm))
                     ELSE template_x
    IN  [x |-> IF is_left THEN RSub(overlap_x, RMul(Num(split_overlap), mm)) ELSE overlap_x,
         y |-> template_y,
         width |-> RMul(Num(split_overlap), mm), height |-> RMul(wrap_h, mm)]

\* the outlines, centerline and overlap zone of a half placed at
\* (template_x, template_y)
split_template(g, wrap_w, wrap_h, x_start, x_end, template_x, template_y, is_left) ==
    LET base_offset_x == RDiv(RSub(wrap_w, g.base_w), Num(2))
        base_offset_y == RDiv(RSub(wrap_h, g.base_h), Num(2))
        centerline_x == RAdd(template_x, RMul(RSub(center_w_of(wrap_w), x_start), mm))
    IN  [base_lines |-> split_outline(g, g.base_w, g.base_h, base_offset_x, base_offset_y,
                                      x_start, x_end, template_x, template_y),
         wrap_lines |-> split_outline(g, wrap_w, wrap_h, Num(0), Num(0),
                                      x_start, x_end, template_x, template_y),
         centerline |-> [x |-> centerline_x, y1 |-> template_y,
                         y2 |-> RAdd(template_y, RMul(wrap_h, mm))],
         overlap_zone |-> overlap_zone_of(wrap_w, wrap_h, x_start, template_x, template_y,
                                          is_left)]

\* mutation of same_page_range: the halves stop short of the band around
\* the midline instead of covering it
same_page_range_with_gap(wrap_w, is_left) ==
    LET center_w == center_w_of(wrap_w)
    IN  [x_start |-> IF is_left THEN Num(0) ELSE RAdd(center_w, Num(split_overlap)),
         x_end |-> IF is_left THEN RSub(center_w, Num(split_overlap)) ELSE wrap_w]

\* x_start, x_end of a half in _generate_split_same_page
same_page_range(wrap_w, is_left) ==
    LET center_w == center_w_of(wrap_w)
    IN  [x_start |-> IF is_left THEN Num(0) ELSE RSub(center_w, Num(split_overlap)),
         x_end |-> IF is_left THEN RAdd(center_w, Num(split_overlap)) ELSE wrap_w]

\* mutation of separate_pages_range: the left page ends at the midline
separate_pages_range_no_overlap(wrap_w, is_left) ==
    LET center_w == center_w_of(wrap_w)
    IN  [x_start |-> IF is_left THEN Num(0) ELSE RSub(center_w, Num(split_overlap)),
         x_end |-> IF is_left THEN center_w ELSE wrap_w]

\* x_start, x_end passed to _draw_split_page by _generate_split_separate_pages
separate_pages_range(wrap_w, is_left) ==
    LET center_w == center_w_of(wrap_w)
        left_width == RAdd(center_w, Num(split_overlap))
    IN  [x_start |-> IF is_left THEN Num(0) ELSE RSub(center_w, Num(split_overlap)),
         x_end |-> IF is_left THEN left_width ELSE wrap_w]

_generate_single_page(g, wrap_w, wrap_h) ==
    LET template_x == RDiv(RSub(page_w, RMul(wrap_w, mm)), Num(2))
        y1 == RAdd(margin, RMul(Num(40), mm))
        y2 == RAdd(RAdd(y1, RMul(wrap_h, mm)), RMul(Num(15), mm))
    IN  << << Section("TEMPLATE 1", "FULL", Num(0), wrap_w, template_x, y1)
                @@ full_template(g, wrap_w, wrap_h, template_x, y1),
              Section("TEMPLATE 2", "FULL", Num(0), wrap_w, template_x, y2)
                @@ full_template(g, wrap_w, wrap_h, template_x, y2) >> >>

_draw_split_half(g, wrap_w, wrap_h, x_start, x_end, template_y, label, half_width, is_left) ==
    LET template_x == RDiv(RSub(page_w, RMul(half_width, mm)), Num(2))
    IN  Section(label, IF is_left THEN "LEFT" ELSE "RIGHT", x_start, x_end,
                template_x, template_y)
          @@ split_template(g, wrap_w, wrap_h, x_start, x_end, template_x, template_y, is_left)

_generate_split_same_page(g, wrap_w, wrap_h) ==
    LET half_width == RAdd(center_w_of(wrap_w), Num(split_overlap))
        start_y == RAdd(margin, RMul(Num(20), mm))
        y2 == RAdd(RAdd(start_y, RMul(wrap_h, mm)), template_spacing)
        l == same_page_range(wrap_w, TRUE)
        r == same_page_range(wrap_w, FALSE)
    IN  << << _draw_split_half(g, wrap_w, wrap_h, l.x_start, l.x_end, start_y,
                               "LEFT HALF", half_width, TRUE),
              _draw_split_half(g, wrap_w, wrap_h, r.x_start, r.x_end, y2,
                               "RIGHT HALF", half_width, FALSE) >> >>

_draw_single_template_page(g, wrap_w, wrap_h, page_label) ==
    LET template_y == RSub(RDiv(RSub(page_h, RMul(wrap_h, mm)), Num(2)), RMul(Num(10), mm))
        template_x == RDiv(RSub(page_w, RMul(wrap_w, mm)), Num(2))
    IN  << Section(page_label, "FULL", Num(0), wrap_w, template_x, template_y)
             @@ full_template(g, wrap_w, wrap_h, template_x, template_y) >>

\* mutation of _generate_single_multipage: the second page is not drawn
_generate_single_multipage_one_page(g, wrap_w, wrap_h) ==
    << _draw_single_template_page(g, wrap_w, wrap_h, "TEMPLATE 1/2") >>

_generate_single_multipage(g, wrap_w, wrap_h) ==
    << _draw_single_template_page(g, wrap_w, wrap_h, "TEMPLATE 1/2"),
       _draw_single_template_page(g, wrap_w, wrap_h, "TEMPLATE 2/2") >>

_draw_split_page(g, wrap_w, wrap_h, x_start, x_end, page_label, is_left) ==
    LET section_width == RSub(x_end, x_start)
        template_y == RSub(RDiv(page_h, Num(2)), RDiv(RMul(wrap_h, mm), Num(2)))
        template_x == RDiv(RSub(page_w, RMul(section_width, mm)), Num(2))
    IN  << Section(page_label, IF is_left THEN "LEFT" ELSE "RIGHT", x_start, x_end,
                   template_x, template_y)
             @@ split_template(g, wrap_w, wrap_h, x_start, x_end, template_x, template_y,
                               is_left) >>

\* mutation of _generate_split_separate_pages: it returns with the page of
\* the right half not drawn
_generate_split_separate_pages_left_only(g, wrap_w, wrap_h) ==
    LET l == separate_pages_range(wrap_w, TRUE)
    IN  << _draw_split_page(g, wrap_w, wrap_h, l.x_start, l.x_end, "LEFT HALF (1 of 2)", TRUE) >>

_generate_split_separate_pages(g, wrap_w, wrap_h) ==
    LET l == separate_pages_range(wrap_w, TRUE)
        r == separate_pages_range(wrap_w, FALSE)
    IN  << _draw_split_page(g, wrap_w, wrap_h, l.x_start, l.x_end, "LEFT HALF (1 of 2)", TRUE),
           _draw_split_page(g, wrap_w, wrap_h, r.x_start, r.x_end, "RIGHT HALF (2 of 2)", FALSE) >>

\* the pages drawn by the branch generate_pdf takes
DrawLayout(g, wrap_w, wrap_h) ==
    LET mode == LayoutMode(wrap_w, wrap_h)
    IN  CASE mode = "SPLIT_SAME_PAGE" -> _generate_split_same_page(g, wrap_w, wrap_h)
          [] mode = "SPLIT_SEPARATE_PAGES" -> _generate_split_separate_pages(g, wrap_w, wrap_h)
          [] mode = "SINGLE_PAGE_STACKED" -> _generate_single_page(g, wrap_w, wrap_h)
          [] mode = "SINGLE_MULTIPAGE" -> _generate_single_multipage(g, wrap_w, wrap_h)

-----------------------------------------------------------------------------
(* Bounds and input sets of the model.                                     *)

\* number of runs (presses of "Generate Template") a behaviour may hold
MaxRuns == 2

\* the add-on's default property values
DefaultSpec ==
    [pipe_od |-> Rat(381, 5), bend_radius_multiplier |-> Rat(3, 2),
     bend_angle |-> Num(90), num_segments |-> 5,
     wrap_thickness |-> Rat(123, 20), overlap |-> Num(10)]

\* the specs a run of the whole pipeline is started with: the default
\* (split, both halves on one page), an 18 degree bend in one segment (the
\* wrap dimensions of the default), a 90 degree bend in one segment (split,
\* one half per page), and a thinner pipe that fits the page width, with a
\* short segment of 90/7 degrees and with a long one
RunSpecs ==
    { DefaultSpec,
      [DefaultSpec EXCEPT !.bend_angle = Num(18), !.num_segments = 1],
      [DefaultSpec EXCEPT !.num_segments = 1],
      [DefaultSpec EXCEPT !.pipe_od = Num(50), !.num_segments = 7],
      [DefaultSpec EXCEPT !.pipe_od = Num(50), !.bend_radius_multiplier = Num(3),
                          !.num_segments = 1] }

\* the values of the output_folder string: empty, blank, a relative path,
\* and the same directory written with redundant parts
Folders == {"", "  ", "out", "./out/"}

\* the filesystem states around the path "out" before the first run;
\* `writable` is os.access(abs_path, os.W_OK), of a directory or of a file
Disks ==
    { d \in [parent_exists : BOOLEAN, parent_writable : BOOLEAN,
             kind : {"absent", "dir", "file"}, writable : BOOLEAN, files : {{}}] :
        /\ (~d.parent_exists) => (d.kind = "absent" /\ ~d.parent_writable)
        /\ d.writable => d.kind # "absent" }

\* the objects of the scene before the first run (run 0: not made by a
\* run): a cube and a PipeSegment.001 left from an earlier session
Scenes ==
    { [objects |-> {[name |-> "Cube", run |-> 0], [name |-> "PipeSegment.001", run |-> 0]},
       meshes |-> {}] }

\* what the Flattener leaves in the UV layer: two quads sharing an edge
Unwraps ==
    { << << <<0, 0>>, <<1, 0>>, <<1, 1>>, <<0, 1>> >>,
         << <<1, 0>>, <<2, 0>>, <<2, 1>>, <<1, 1>> >> >> }

-----------------------------------------------------------------------------
(* execute                                                                 *)

Report(level, text) == [level |-> level, text |-> text]

\* mutation of next_step: the output folder is validated after the
\* geometry work instead of before it
next_step_late_validation(step) ==
    CASE step = "start" -> "create"
      [] step = "create" -> "unwrap"
      [] step = "unwrap" -> "extract"
      [] step = "extract" -> "validate"
      [] step = "validate" -> "pdf"
      [] step = "pdf" -> "draw"
      [] step = "draw" -> "save"
      [] step = "save" -> "finished"

\* the order in which execute runs its steps
next_step(step) ==
    CASE step = "start" -> "validate"
      [] step = "validate" -> "create"
      [] step = "create" -> "unwrap"
      [] step = "unwrap" -> "extract"
      [] step = "extract" -> "pdf"
      [] step = "pdf" -> "draw"
      [] step = "draw" -> "save"
      [] step = "save" -> "finished"

\* os.path.abspath(os.path.normpath(folder_path)) with the working directory
\* /cwd: normpath drops "./" and the trailing "/", turns "" into ".", and
\* keeps blanks; abspath joins the working directory in front
abs_path(folder_path) ==
    CASE folder_path = "out" -> "/cwd/out"
      [] folder_path = "./out/" -> "/cwd/out"
      [] folder_path = "  " -> "/cwd/  "
      [] folder_path = "" -> "/cwd"

\* not folder_path or folder_path.strip() == ""
is_blank(folder_path) == folder_path \in {"", "  "}

\* mutation of _validate_output_folder: the isfile test is left out
_validate_output_folder_without_isfile(folder_path, d) ==
    IF is_blank(folder_path) THEN "Output folder path is empty"
    ELSE IF ~d.parent_exists THEN "Parent directory does not exist"
    ELSE IF d.kind # "absent" /\ ~d.writable THEN "Directory is not writable"
    ELSE IF d.kind = "absent" /\ ~d.parent_writable
         THEN "Cannot create directory - parent is not writable"
    ELSE ""

\* _validate_output_folder: the message of the exception raised, "" if the
\* path is accepted (abs_path is then returned)
_validate_output_folder(folder_path, d) ==
    IF is_blank(folder_path) THEN "Output folder path is empty"
    ELSE IF ~d.parent_exists THEN "Parent directory does not exist"
    ELSE IF d.kind = "file" THEN "Path is a file, not a directory"
    ELSE IF d.kind # "absent" /\ ~d.writable THEN "Directory is not writable"
    ELSE IF d.kind = "absent" /\ ~d.parent_writable
         THEN "Cannot create directory - parent is not writable"
    ELSE ""

\* mutation of Cancel: the exception is swallowed without a report
Cancel_silent(step, infos, text) ==
    /\ reports' = reports \o infos
    /\ result' = "CANCELLED"
    /\ failed_at' = step
    /\ pc' = "idle"

\* the except clauses of execute: one ERROR report, return {"CANCELLED"}
Cancel(step, infos, text) ==
    /\ reports' = (reports \o infos) \o << Report("ERROR", text) >>
    /\ result' = "CANCELLED"
    /\ failed_at' = step
    /\ pc' = "idle"

\* leaving a step without an exception
Proceed(step, infos) ==
    /\ reports' = reports \o infos
    /\ pc' = next_step(step)
    /\ UNCHANGED <<result, failed_at>>

\* The user sets the properties and presses "Generate Template".
Invoke ==
    /\ pc = "idle"
    /\ runs < MaxRuns
    /\ \E sp \in RunSpecs :
         props' = [pipe_od |-> sp.pipe_od,
                   bend_radius_multiplier |-> sp.bend_radius_multiplier,
                   bend_angle |-> sp.bend_angle, num_segments |-> sp.num_segments,
                   wrap_thickness |-> sp.wrap_thickness, overlap |-> sp.overlap,
                   output_folder |-> props.output_folder]
    /\ runs' = runs + 1
    /\ pc' = next_step("start")
    /\ result' = "NONE"
    /\ reports' = <<>>
    /\ failed_at' = ""
    /\ start' = [disk |-> disk, scene |-> scene]
    /\ segment_obj' = None
    /\ polygons' = <<>>
    /\ uv_data' = None
    /\ boundary_data' = None
    /\ canvas' = None
    /\ UNCHANGED <<disk, env, scene, emitted>>

\* mutation of Validate: validation creates the directory it finds missing
Validate_creating_directory ==
    /\ pc = "validate"
    /\ LET err == _validate_output_folder(props.output_folder, disk)
       IN  IF err # ""
           THEN /\ Cancel("validate", <<>>, "Output folder validation failed")
                /\ UNCHANGED disk
           ELSE /\ Proceed("validate", << Report("INFO", abs_path(props.output_folder)) >>)
                /\ disk' = IF disk.kind = "absent"
                           THEN [disk EXCEPT !.kind = "dir", !.writable = TRUE]
                           ELSE disk
    /\ UNCHANGED <<props, env, scene, segment_obj, polygons, uv_data,
                   boundary_data, canvas, runs, emitted, start>>

\* execute, lines 113-118: early validation; the INFO message carries the
\* path _validate_output_folder returned
Validate ==
    /\ pc = "validate"
    /\ LET err == _validate_output_folder(props.output_folder, disk)
       IN  IF err # ""
           THEN Cancel("validate", <<>>, "Output folder validation failed")
           ELSE Proceed("validate", << Report("INFO", abs_path(props.output_folder)) >>)
    /\ UNCHANGED <<props, disk, env, scene, segment_obj, polygons, uv_data,
                   boundary_data, canvas, runs, emitted, start>>

\* mutation of IsPipeSegmentName: the startswith test is left out
IsPipeSegmentName_exact(name) == name = "PipeSegment"

\* obj.name == "PipeSegment" or obj.name.startswith("PipeSegment.")
IsPipeSegmentName(name) == name \in {"PipeSegment", "PipeSegment.001"}

\* create_pipe_segment: clear the old PipeSegment objects, build the mesh
\* and link a new object; or an exception before anything is changed
CreatePipeSegment ==
    /\ pc = "create"
    /\ \/ /\ scene' = [objects |-> {o \in scene.objects : ~IsPipeSegmentName(o.name)}
                                    \cup {[name |-> "PipeSegment", run |-> runs]},
                       meshes |-> scene.meshes \cup {runs}]
          /\ segment_obj' = [run |-> runs, has_uv |-> FALSE, seam |-> FALSE,
                              mesh |-> PipeMesh(props)]
          /\ Proceed("create", << Report("INFO", "Creating 3D pipe segment...") >>)
       \/ /\ Cancel("create", << Report("INFO", "Creating 3D pipe segment...") >>,
                    "Failed to generate template")
          /\ UNCHANGED <<scene, segment_obj>>
    /\ UNCHANGED <<props, disk, env, polygons, uv_data, boundary_data, canvas,
                   runs, emitted, start>>

\* unwrap_pipe_segment: mark the seam and call the Flattener, which fills
\* the UV layer, or leaves the mesh without one, or raises
UnwrapPipeSegment ==
    /\ pc = "unwrap"
    /\ \/ /\ \E uvs \in Unwraps : polygons' = uvs
          /\ segment_obj' = [segment_obj EXCEPT !.has_uv = TRUE, !.seam = TRUE,
                                                !.mesh.seam = marked_seam(segment_obj.mesh)]
          /\ Proceed("unwrap", << Report("INFO", "UV unwrapping...") >>)
       \/ /\ segment_obj' = [segment_obj EXCEPT !.seam = TRUE,
                                                !.mesh.seam = marked_seam(segment_obj.mesh)]
          /\ Proceed("unwrap", << Report("INFO", "UV unwrapping...") >>)
          /\ UNCHANGED polygons
       \/ /\ Cancel("unwrap", << Report("INFO", "UV unwrapping...") >>,
                    "Failed to generate template")
          /\ UNCHANGED <<segment_obj, polygons>>
    /\ UNCHANGED <<props, disk, env, scene, uv_data, boundary_data, canvas,
                   runs, emitted, start>>

\* extract_uv_data
ExtractUvData ==
    /\ pc = "extract"
    /\ IF ~segment_obj.has_uv
       THEN /\ Cancel("extract", << Report("INFO", "Extracting UV data...") >>,
                   "Failed to generate template")
            /\ UNCHANGED <<uv_data, boundary_data>>
       ELSE /\ uv_data' = Dimensions(props)
            /\ boundary_data' =
                   [boundary_edges |-> boundary_edges_of(polygons),
                    bounds |-> UvBounds(polygons)]
            /\ Proceed("extract", << Report("INFO", "Extracting UV data...") >>)
    /\ UNCHANGED <<props, disk, env, scene, segment_obj, polygons, canvas,
                   runs, emitted, start>>


-----------------------------------------------------------------------------
(* generate_pdf, in three steps: everything up to the creation of the      *)
(* canvas, the layout path, and c.save().                                  *)

\* the document a run writes: its file name, the spec it was made from,
\* its pages, and whether it was written completely
Document(name, sp, pages, complete) ==
    [name |-> name, spec |-> sp, pages |-> pages, complete |-> complete]

\* generate_pdf, lines 454-522: import reportlab, read the dimensions,
\* build the file name, _ensure_output_directory, create the canvas
GeneratePdf_Prepare ==
    /\ pc = "pdf"
    /\ LET infos == << Report("INFO", "Generating PDF...") >>
           created == << Report("INFO", "Created output directory") >>
       IN  IF ~env.reportlab
           THEN /\ Cancel("pdf", infos, "Failed to generate template")
                /\ UNCHANGED <<disk, canvas>>
           ELSE IF disk.kind = "absent"
           THEN \/ /\ disk' = [disk EXCEPT !.kind = "dir", !.writable = TRUE]
                   /\ canvas' = [path |-> filename(props), pages |-> <<>>, subtitles |-> <<>>,
                                 saved |-> FALSE]
                   /\ Proceed("pdf", infos \o created)
                \/ /\ Cancel("pdf", infos, "Failed to generate template")
                   /\ UNCHANGED <<disk, canvas>>
           ELSE IF ~disk.writable
           THEN /\ Cancel("pdf", infos, "Failed to generate template")
                /\ UNCHANGED <<disk, canvas>>
           ELSE /\ canvas' = [path |-> filename(props), pages |-> <<>>, subtitles |-> <<>>,
                                 saved |-> FALSE]
                /\ Proceed("pdf", infos)
                /\ UNCHANGED disk
    /\ UNCHANGED <<props, env, scene, segment_obj, polygons, uv_data,
                   boundary_data, runs, emitted, start>>

\* generate_pdf, line 485: the per-segment angle handed to the layout paths
pdf_segment_angle(p) == RDiv(p.bend_angle, Num(p.num_segments))

\* the line every page carries under its title:
\* f"{pipe_od:.1f}mm OD | {bend_radius_multiplier:.1f}D {bend_angle:.0f}° Bend | {segment_angle:.1f}° per segment"
subtitle(p, segment_angle) ==
    [pipe_od |-> Fmt1(p.pipe_od), bend_radius_multiplier |-> Fmt1(p.bend_radius_multiplier),
     bend_angle |-> Fmt0(p.bend_angle), segment_angle |-> Fmt1(segment_angle)]

\* generate_pdf, lines 472-482: what it reads from boundary_data and uv_data
DrawingInputs ==
    [boundary_edges |-> boundary_data.boundary_edges,
     min_u |-> boundary_data.bounds.min_u, max_u |-> boundary_data.bounds.max_u,
     min_v |-> boundary_data.bounds.min_v, max_v |-> boundary_data.bounds.max_v,
     base_w |-> uv_data.pipe_circ_mm, base_h |-> uv_data.pipe_arc_mm]

\* generate_pdf, lines 524-629: the layout path chosen draws its pages and
\* closes each with showPage; or an exception inside the drawing calls
GeneratePdf_Draw ==
    /\ pc = "draw"
    /\ \/ /\ LET pages == DrawLayout(DrawingInputs, uv_data.wrap_width,
                                      uv_data.wrap_arc_length)
             IN  canvas' = [canvas EXCEPT
                     !.pages = pages,
                     !.subtitles = [k \in DOMAIN pages |->
                                      subtitle(props, pdf_segment_angle(props))]]
          /\ Proceed("draw", <<>>)
       \/ /\ Cancel("draw", <<>>, "Failed to generate template")
          /\ UNCHANGED canvas
    /\ UNCHANGED <<props, disk, env, scene, segment_obj, polygons, uv_data,
                   boundary_data, runs, emitted, start>>

\* the files of the output directory once `doc` is written under its name
WriteFile(files, doc) == {f \in files : f.name # doc.name} \cup {doc}

\* generate_pdf, lines 631-632, and execute, lines 136-137: c.save() writes
\* the document; if it raises, the file is either not touched or left
\* incomplete
GeneratePdf_Save ==
    /\ pc = "save"
    /\ \/ /\ disk' = [disk EXCEPT !.files =
                        WriteFile(@, Document(canvas.path, PipeSpec(props), canvas.pages, TRUE))]
          /\ canvas' = [canvas EXCEPT !.saved = TRUE]
          /\ emitted' = Append(emitted,
                  [file |-> canvas.path, spec |-> PipeSpec(props),
                   wrap_width |-> uv_data.wrap_width,
                   wrap_arc_length |-> uv_data.wrap_arc_length,
                   pages |-> canvas.pages])
          /\ reports' = reports \o << Report("INFO", "PDF saved"),
                                      Report("INFO", "Template generated successfully!") >>
          /\ result' = "FINISHED"
          /\ pc' = "idle"
          /\ UNCHANGED failed_at
       \/ /\ Cancel("save", <<>>, "Failed to generate template")
          /\ UNCHANGED <<disk, canvas, emitted>>
       \/ /\ disk' = [disk EXCEPT !.files =
                        WriteFile(@, Document(canvas.path, PipeSpec(props), canvas.pages, FALSE))]
          /\ Cancel("save", <<>>, "Failed to generate template")
          /\ UNCHANGED <<canvas, emitted>>
    /\ UNCHANGED <<props, env, scene, segment_obj, polygons, uv_data,
                   boundary_data, runs, start>>

-----------------------------------------------------------------------------
(* The add-on in use: any number of runs up to MaxRuns.                    *)

Init ==
    /\ props \in {[pipe_od |-> DefaultSpec.pipe_od,
                   bend_radius_multiplier |-> DefaultSpec.bend_radius_multiplier,
                   bend_angle |-> DefaultSpec.bend_angle,
                   num_segments |-> DefaultSpec.num_segments,
                   wrap_thickness |-> DefaultSpec.wrap_thickness,
                   overlap |-> DefaultSpec.overlap,
                   output_folder |-> f] : f \in Folders}
    /\ disk \in Disks
    /\ env \in [reportlab : BOOLEAN]
    /\ scene \in Scenes
    /\ pc = "idle"
    /\ result = "NONE"
    /\ reports = <<>>
    /\ segment_obj = None
    /\ polygons = <<>>
    /\ uv_data = None
    /\ boundary_data = None
    /\ canvas = None
    /\ runs = 0
    /\ emitted = <<>>
    /\ start = [disk |-> disk, scene |-> scene]
    /\ failed_at = ""

Next ==
    \/ Invoke
    \/ Validate
    \/ CreatePipeSegment
    \/ UnwrapPipeSegment
    \/ ExtractUvData
    \/ GeneratePdf_Prepare
    \/ GeneratePdf_Draw
    \/ GeneratePdf_Save

Spec == Init /\ [][Next]_vars


-----------------------------------------------------------------------------
(* generate_pdf on its own: a run that has reached generate_pdf with the   *)
(* dimensions its caller hands over in uv_data, over a grid of widths and  *)
(* heights that holds both thresholds, values on either side of them, and  *)
(* values that are not positive.                                           *)

WrapWidths ==
    { Num(-10), Num(0), Num(100), Num(285), Rat(28501, 100), Num(288), Num(400) }

WrapHeights ==
    { Num(-5), Num(0), Num(30), Rat(133, 2), Rat(6651, 100), Num(100) }

PropsOf(sp, folder) ==
    [pipe_od |-> sp.pipe_od, bend_radius_multiplier |-> sp.bend_radius_multiplier,
     bend_angle |-> sp.bend_angle, num_segments |-> sp.num_segments,
     wrap_thickness |-> sp.wrap_thickness, overlap |-> sp.overlap,
     output_folder |-> folder]

\* a run in front of the step `at`, with nothing written to disk yet; of
\* the object only what the later steps read is kept
MidRun(at) ==
    /\ disk \in {d \in Disks : d.parent_writable /\ d.kind \in {"absent", "dir"}
                               /\ (d.kind = "dir" => d.writable)}
    /\ env = [reportlab |-> TRUE]
    /\ scene = [objects |-> {[name |-> "PipeSegment", run |-> 1]}, meshes |-> {1}]
    /\ pc = at
    /\ result = "NONE"
    /\ reports = <<>>
    /\ canvas = None
    /\ runs = 1
    /\ emitted = <<>>
    /\ start = [disk |-> disk, scene |-> [objects |-> {}, meshes |-> {}]]
    /\ failed_at = ""

\* the UV layers generate_pdf is tried on: the two quads, and a strip of
\* four quads of which the middle two are 1/32 of the width each, as the
\* quads of a ring of 32 vertices are
LayoutUnwraps ==
    Unwraps \cup
    { << << <<0, 0>>, <<1, 0>>, <<1, 15>>, <<0, 15>> >>,
         << <<0, 15>>, <<1, 15>>, <<1, 16>>, <<0, 16>> >>,
         << <<0, 16>>, <<1, 16>>, <<1, 17>>, <<0, 17>> >>,
         << <<0, 17>>, <<1, 17>>, <<1, 32>>, <<0, 32>> >> >> }

InitLayout ==
    /\ MidRun("pdf")
    /\ props = PropsOf(DefaultSpec, "out")
    /\ segment_obj = [run |-> 1, has_uv |-> TRUE, seam |-> TRUE]
    /\ polygons \in LayoutUnwraps
    /\ \E w \in WrapWidths, h \in WrapHeights :
         uv_data = [pipe_circ_mm |-> Dimensions(props).pipe_circ_mm,
                    pipe_arc_mm |-> Dimensions(props).pipe_arc_mm,
                    wrap_width |-> w, wrap_arc_length |-> h, overlap |-> props.overlap]
    /\ boundary_data = [boundary_edges |-> boundary_edges_of(polygons),
                        bounds |-> UvBounds(polygons)]

NextLayout ==
    \/ GeneratePdf_Prepare
    \/ GeneratePdf_Draw
    \/ GeneratePdf_Save

SpecLayout == InitLayout /\ [][NextLayout]_vars

-----------------------------------------------------------------------------
(* extract_uv_data on its own: a run that has reached extract_uv_data,     *)
(* either with one of a grid of property values spanning the limits of    *)
(* the property group, or with one of the polygon lists a Flattener could  *)
(* hand over, manifold or not.                                             *)

\* longest polygon list tried
MaxPolys == 3

OdValues == { Num(10), Rat(381, 5), Rat(305, 4), Num(500) }
MultiplierValues == { Rat(1, 2), Rat(3, 2), Num(10) }
AngleValues == { Num(1), Num(90), Num(360) }
SegmentValues == { 1, 5, 20 }
ThicknessValues == { Rat(1, 10), Rat(123, 20), Num(50) }
OverlapValues == { Num(0), Num(10), Num(50) }

SpecGrid ==
    [pipe_od : OdValues, bend_radius_multiplier : MultiplierValues,
     bend_angle : AngleValues, num_segments : SegmentValues,
     wrap_thickness : ThicknessValues, overlap : OverlapValues]

\* three triangles on the edge (0,0)-(1,0), two unit squares side by side,
\* and the first square walked the other way round
Shapes ==
    { << <<0, 0>>, <<1, 0>>, <<0, 1>> >>,
      << <<1, 0>>, <<0, 0>>, <<1, 1>> >>,
      << <<0, 0>>, <<1, 0>>, <<2, 1>> >>,
      << <<0, 0>>, <<1, 0>>, <<1, 1>>, <<0, 1>> >>,
      << <<1, 0>>, <<2, 0>>, <<2, 1>>, <<1, 1>> >>,
      << <<0, 1>>, <<1, 1>>, <<1, 0>>, <<0, 0>> >> }

PolygonLists == UNION {[1..n -> Shapes] : n \in 1..MaxPolys}

InitExtract ==
    /\ MidRun("extract")
    /\ uv_data = None
    /\ boundary_data = None
    /\ \/ /\ \E sp \in SpecGrid : props = PropsOf(sp, "out")
          /\ polygons = CHOOSE uvs \in Unwraps : Len(uvs) = 2
       \/ /\ props = PropsOf(DefaultSpec, "out")
          /\ polygons \in PolygonLists
    /\ segment_obj \in {[run |-> 1, has_uv |-> u, seam |-> TRUE] : u \in BOOLEAN}

NextExtract == ExtractUvData

SpecExtract == InitExtract /\ [][NextExtract]_vars

-----------------------------------------------------------------------------
(* _draw_split_half and _draw_split_page on their own: each is called once *)
(* on a fresh canvas with a section [x_start, x_end] that may lie anywhere *)
(* in the template, among them the two halves generate_pdf asks for and    *)
(* the window from 0.3 to 0.4 of the width.                                *)

\* a strip of four quads along v, and one quad
ClipPolygons ==
    { [i \in 1..4 |-> << <<0, i - 1>>, <<1, i - 1>>, <<1, i>>, <<0, i>> >>],
      << << <<0, 0>>, <<1, 0>>, <<1, 1>>, <<0, 1>> >> >> }

\* the sections tried for a template of width wrap_w, as [x_start, x_end]
ClipWindows(wrap_w) ==
    { same_page_range(wrap_w, TRUE), same_page_range(wrap_w, FALSE),
      [x_start |-> RMul(Rat(3, 10), wrap_w), x_end |-> RMul(Rat(4, 10), wrap_w)],
      [x_start |-> RMul(Rat(1, 4), wrap_w), x_end |-> RMul(Rat(3, 4), wrap_w)],
      [x_start |-> RMul(Rat(3, 4), wrap_w), x_end |-> wrap_w] }

InitClip ==
    /\ disk = [parent_exists |-> TRUE, parent_writable |-> TRUE, kind |-> "dir",
               writable |-> TRUE, files |-> {}]
    /\ env = [reportlab |-> TRUE]
    /\ scene = [objects |-> {[name |-> "PipeSegment", run |-> 1]}, meshes |-> {1}]
    /\ pc = "draw"
    /\ result = "NONE"
    /\ reports = <<>>
    /\ runs = 1
    /\ emitted = <<>>
    /\ start = [disk |-> disk, scene |-> [objects |-> {}, meshes |-> {}]]
    /\ failed_at = ""
    /\ props = PropsOf(DefaultSpec, "out")
    /\ segment_obj = [run |-> 1, has_uv |-> TRUE, seam |-> TRUE]
    /\ polygons \in ClipPolygons
    /\ \E w \in {Num(288), Num(400)}, h \in {Num(30), Num(100)}, bw \in {Num(200), Num(280)} :
         uv_data = [pipe_circ_mm |-> bw, pipe_arc_mm |-> RSub(h, Num(10)),
                    wrap_width |-> w, wrap_arc_length |-> h, overlap |-> props.overlap]
    /\ boundary_data = [boundary_edges |-> boundary_edges_of(polygons),
                        bounds |-> UvBounds(polygons)]
    /\ canvas = [path |-> filename(props), pages |-> <<>>, subtitles |-> <<>>,
                 saved |-> FALSE]

\* one call of _draw_split_half, as _generate_split_same_page makes it
DrawSplitHalf ==
    /\ pc = "draw"
    /\ canvas.pages = <<>>
    /\ \E win \in ClipWindows(uv_data.wrap_width), is_left \in BOOLEAN :
         canvas' = [canvas EXCEPT !.pages =
             << << _draw_split_half(DrawingInputs, uv_data.wrap_width, uv_data.wrap_arc_length,
                                    win.x_start, win.x_end, RAdd(margin, RMul(Num(20), mm)),
                                    IF is_left THEN "LEFT HALF" ELSE "RIGHT HALF",
                                    RSub(win.x_end, win.x_start), is_left) >> >>]
    /\ UNCHANGED <<props, disk, env, scene, pc, result, reports, segment_obj, polygons,
                   uv_data, boundary_data, runs, emitted, start, failed_at>>

\* one call of _draw_split_page, as _generate_split_separate_pages makes it
DrawSplitPage ==
    /\ pc = "draw"
    /\ canvas.pages = <<>>
    /\ \E win \in ClipWindows(uv_data.wrap_width), is_left \in BOOLEAN :
         canvas' = [canvas EXCEPT !.pages =
             << _draw_split_page(DrawingInputs, uv_data.wrap_width, uv_data.wrap_arc_length,
                                 win.x_start, win.x_end,
                                 IF is_left THEN "LEFT HALF (1 of 2)" ELSE "RIGHT HALF (2 of 2)",
                                 is_left) >>,
                            !.subtitles = << subtitle(props, pdf_segment_angle(props)) >>]
    /\ UNCHANGED <<props, disk, env, scene, pc, result, reports, segment_obj, polygons,
                   uv_data, boundary_data, runs, emitted, start, failed_at>>

NextClip ==
    \/ DrawSplitHalf
    \/ DrawSplitPage

SpecClip == InitClip /\ [][NextClip]_vars

-----------------------------------------------------------------------------
(* create_pipe_segment and unwrap_pipe_segment on their own: a run that    *)
(* has passed validation, over property values at the limits of the        *)
(* property group.                                                         *)

MeshSpecs ==
    { [DefaultSpec EXCEPT !.pipe_od = od, !.bend_radius_multiplier = m,
                          !.bend_angle = a, !.num_segments = n] :
        od \in {Num(10), Rat(381, 5), Num(500)}, m \in {Rat(1, 2), Num(10)},
        a \in {Num(1), Num(360)}, n \in {1, 20} }

InitMesh ==
    /\ \E sp \in MeshSpecs : props = PropsOf(sp, "out")
    /\ disk = [parent_exists |-> TRUE, parent_writable |-> TRUE, kind |-> "dir",
               writable |-> TRUE, files |-> {}]
    /\ env = [reportlab |-> TRUE]
    /\ scene \in Scenes
    /\ pc = "create"
    /\ result = "NONE"
    /\ reports = << Report("INFO", abs_path(props.output_folder)) >>
    /\ segment_obj = None
    /\ polygons = <<>>
    /\ uv_data = None
    /\ boundary_data = None
    /\ canvas = None
    /\ runs = 1
    /\ emitted = <<>>
    /\ start = [disk |-> disk, scene |-> scene]
    /\ failed_at = ""

NextMesh ==
    \/ CreatePipeSegment
    \/ UnwrapPipeSegment

SpecMesh == InitMesh /\ [][NextMesh]_vars

-----------------------------------------------------------------------------
(* Properties.                                                             *)

\* number of ERROR messages surfaced by the current run
ErrorCount == Cardinality({i \in DOMAIN reports : reports[i].level = "ERROR"})

\* the positions of a run in progress, each the guard of one step
RunSteps == {"validate", "create", "unwrap", "extract", "pdf", "draw", "save"}

\* The layout table of the specification, in millimetres: printable area
\* = A4 landscape minus margins and title / scale-bar reservations.
RefPrintableWidth == Num(297 - 2 * 6)
RefPrintableHeight == Num(210 - 30 - 20 - 2 * 6)
RefSpacing == Num(15)

RefMode(w, h) ==
    LET split == RGt(w, RefPrintableWidth)
        stack_height == RAdd(RMul(Num(2), h), RefSpacing)
    IN  IF ~split /\ RLe(stack_height, RefPrintableHeight) THEN "SINGLE_PAGE_STACKED"
        ELSE IF ~split THEN "SINGLE_MULTIPAGE"
        ELSE IF RLe(stack_height, RefPrintableHeight) THEN "SPLIT_SAME_PAGE"
        ELSE "SPLIT_SEPARATE_PAGES"

\* the layout a drawn document shows, read off its first section's label
ModeOfPages(pages) ==
    LET label == pages[1][1].label
    IN  CASE label = "TEMPLATE 1" -> "SINGLE_PAGE_STACKED"
          [] label = "TEMPLATE 1/2" -> "SINGLE_MULTIPAGE"
          [] label = "LEFT HALF" -> "SPLIT_SAME_PAGE"
          [] label = "LEFT HALF (1 of 2)" -> "SPLIT_SEPARATE_PAGES"
          [] OTHER -> "NONE"

\* the halves shown by each page of a document, page by page
PageHalves(pages) ==
    [i \in DOMAIN pages |-> [j \in DOMAIN pages[i] |-> pages[i][j].half]]

Drawn == canvas # None /\ canvas.pages # <<>>

\* C1: output-folder validation comes before any geometry work: a run
\* whose validation fails is cancelled there, with the scene and the disk
\* as they were at the start of the run, no object created, nothing
\* unwrapped, no UV data extracted and no canvas opened; and no run with
\* an invalid output folder is ever found in a later step.
C1_ValidationBeforeGeometry ==
    /\ failed_at = "validate" =>
         /\ result = "CANCELLED"
         /\ scene = start.scene
         /\ disk = start.disk
         /\ segment_obj = None
         /\ polygons = <<>>
         /\ uv_data = None
         /\ boundary_data = None
         /\ canvas = None
    /\ (runs > 0 /\ _validate_output_folder(props.output_folder, start.disk) # "") =>
         /\ pc \in {"validate", "idle"}
         /\ pc = "idle" => failed_at = "validate"

C1_Witness ==
    /\ pc = "idle"
    /\ failed_at = "validate"
    /\ result = "CANCELLED"
    /\ props.output_folder = "out"
    /\ disk.kind = "dir"

\* C2 (as claimed): a run that fails after validation ends CANCELLED with
\* the disk exactly as it was before the run.
C2_FailedRunLeavesDiskUntouched ==
    (result = "CANCELLED" /\ failed_at # "validate") => disk = start.disk

\* C3: the layout generate_pdf draws is the one the reference table gives
\* for (wrap_width, wrap_height): split iff wrap_width > printable width,
\* same page iff 2 * wrap_height + spacing <= printable height; equality
\* on a threshold selects the non-split / same-page side.
C3_LayoutModeTable ==
    uv_data # None =>
        /\ LayoutMode(uv_data.wrap_width, uv_data.wrap_arc_length)
             = RefMode(uv_data.wrap_width, uv_data.wrap_arc_length)
        /\ Drawn => ModeOfPages(canvas.pages)
                      = RefMode(uv_data.wrap_width, uv_data.wrap_arc_length)

C3_Witness ==
    /\ Drawn
    /\ uv_data.wrap_width = RefPrintableWidth
    /\ uv_data.wrap_arc_length = Rat(133, 2)
    /\ ModeOfPages(canvas.pages) = "SINGLE_PAGE_STACKED"

\* C4: a run that returns FINISHED has written exactly one document, which
\* is complete and holds two sections: FULL, FULL or LEFT, RIGHT, on one
\* page in the same-page layouts and one per page on two pages otherwise;
\* no other file of the output directory was touched.
C4_OneDocumentTwoSections ==
    result = "FINISHED" =>
        LET mode == RefMode(uv_data.wrap_width, uv_data.wrap_arc_length)
            docs == {f \in disk.files : f.name = canvas.path}
            split == mode \in {"SPLIT_SAME_PAGE", "SPLIT_SEPARATE_PAGES"}
            one_page == mode \in {"SINGLE_PAGE_STACKED", "SPLIT_SAME_PAGE"}
            a == IF split THEN "LEFT" ELSE "FULL"
            b == IF split THEN "RIGHT" ELSE "FULL"
        IN  /\ Cardinality(docs) = 1
            /\ \A f \in disk.files \ docs : f \in start.disk.files
            /\ \A d \in docs :
                 /\ d.complete
                 /\ Len(d.pages) \in 1..2
                 /\ PageHalves(d.pages) =
                      IF one_page THEN << <<a, b>> >> ELSE << <<a>>, <<b>> >>

C4_Witness ==
    /\ result = "FINISHED"
    /\ Len(canvas.pages) = 2
    /\ PageHalves(canvas.pages) = << <<"FULL">>, <<"FULL">> >>
    /\ \E f \in disk.files : f.name = canvas.path /\ f.pages = canvas.pages

\* C5 (as claimed): two runs whose specs differ in at least one parameter
\* write to different file names.
C5_FilenamesCollisionFree ==
    \A i, j \in DOMAIN emitted :
        emitted[i].spec # emitted[j].spec => emitted[i].file # emitted[j].file

NonPositive(x) == RLe(x, Num(0))

NonManifold(polys) ==
    LET es == AllEdges(polys)
    IN  \E i \in DOMAIN es : edge_count(es, edge_sorted(es[i])) > 2

\* C7 (as claimed): extraction of a polygon list in which an edge key
\* occurs more than twice fails and cancels the run instead of returning
\* boundary edges, so every accepted extraction has counts 1 or 2 only.
C7_NonManifoldRejected ==
    (pc # "extract" /\ NonManifold(polygons)) =>
        /\ boundary_data = None
        /\ result = "CANCELLED"

\* C8: for every property value within the limits of the property group
\* (so wrap_thickness > 0 and overlap >= 0) the dimension calculator gives
\* base_width = pi*OD, base_height = R_c*angle, wrap_width =
\* 2*pi*(OD/2 + thickness) + overlap, wrap_height = (R_c + thickness)*angle
\* with R_c = OD*multiplier, and wrap_width > base_width and
\* wrap_height > base_height.
C8_WrapLargerThanBase ==
    (uv_data # None /\ PipeTemplateProperties(props)
       /\ RGt(props.wrap_thickness, Num(0)) /\ RLe(Num(0), props.overlap)) =>
        LET R_c == RMul(props.pipe_od, props.bend_radius_multiplier)
            angle == radians(RDiv(props.bend_angle, Num(props.num_segments)))
            two_pi == RMul(Num(2), PI)
        IN  /\ uv_data.pipe_circ_mm = RMul(PI, props.pipe_od)
            /\ uv_data.pipe_arc_mm = RMul(R_c, angle)
            /\ uv_data.wrap_width =
                 RAdd(RMul(two_pi, RAdd(RDiv(props.pipe_od, Num(2)), props.wrap_thickness)),
                      props.overlap)
            /\ uv_data.wrap_arc_length = RMul(RAdd(R_c, props.wrap_thickness), angle)
            /\ RGt(uv_data.wrap_width, uv_data.pipe_circ_mm)
            /\ RGt(uv_data.wrap_arc_length, uv_data.pipe_arc_mm)

C8_Witness ==
    /\ uv_data # None
    /\ props.wrap_thickness = wrap_thickness_min
    /\ props.overlap = Num(0)
    /\ props.pipe_od = pipe_od_max
    /\ props.bend_angle = bend_angle_min
    /\ props.num_segments = num_segments_max
    /\ RGt(uv_data.wrap_arc_length, uv_data.pipe_arc_mm)

\* C9: in both split paths the LEFT half is [0, wrap_width/2 + split_overlap]
\* and the RIGHT half [wrap_width/2 - split_overlap, wrap_width]: both are
\* wrap_width/2 + split_overlap wide, they leave no gap, the two widths
\* minus the doubly covered band give wrap_width, and the sections drawn
\* show exactly these ranges.
C9_SplitHalvesCoverWidth ==
    (uv_data # None /\ RGt(uv_data.wrap_width, RefPrintableWidth)) =>
        LET w == uv_data.wrap_width
            half == RAdd(RDiv(w, Num(2)), Num(split_overlap))
            Covers(l, r) ==
                /\ l.x_start = Num(0)
                /\ l.x_end = half
                /\ r.x_start = RSub(RDiv(w, Num(2)), Num(split_overlap))
                /\ r.x_end = w
                /\ RSub(l.x_end, l.x_start) = half
                /\ RSub(r.x_end, r.x_start) = half
                /\ RLe(r.x_start, l.x_end)
                /\ RSub(RAdd(RSub(l.x_end, l.x_start), RSub(r.x_end, r.x_start)),
                        RSub(l.x_end, r.x_start)) = w
        IN  /\ Covers(same_page_range(w, TRUE), same_page_range(w, FALSE))
            /\ Covers(separate_pages_range(w, TRUE), separate_pages_range(w, FALSE))
            /\ Drawn =>
                 \A i \in DOMAIN canvas.pages : \A j \in DOMAIN canvas.pages[i] :
                     LET sec == canvas.pages[i][j]
                     IN  /\ sec.half \in {"LEFT", "RIGHT"}
                         /\ sec.half = "LEFT" => Covers(sec, same_page_range(w, FALSE))
                         /\ sec.half = "RIGHT" => Covers(same_page_range(w, TRUE), sec)

C9_Witness ==
    /\ Drawn
    /\ Len(canvas.pages) = 2
    /\ canvas.pages[1][1].half = "LEFT"
    /\ canvas.pages[2][1].half = "RIGHT"
    /\ canvas.pages[2][1].x_start = RSub(RDiv(uv_data.wrap_width, Num(2)), Num(split_overlap))
    /\ RLt(canvas.pages[2][1].x_start, canvas.pages[1][1].x_end)

\* C10: a run that has ended returned FINISHED or CANCELLED; a cancelled
\* run surfaced exactly one ERROR message, a finished run none; a run in
\* progress has surfaced none and stands in front of one of the steps.
C10_OneResultOneError ==
    /\ result \in {"NONE", "FINISHED", "CANCELLED"}
    /\ (pc = "idle" /\ runs > 0) => result \in {"FINISHED", "CANCELLED"}
    /\ pc # "idle" => (result = "NONE" /\ pc \in RunSteps)
    /\ result = "CANCELLED" => (ErrorCount = 1 /\ failed_at # "")
    /\ result = "FINISHED" => (ErrorCount = 0 /\ failed_at = "")
    /\ result = "NONE" => ErrorCount = 0

C10_Witness ==
    /\ pc = "idle"
    /\ result = "CANCELLED"
    /\ failed_at = "draw"
    /\ ErrorCount = 1
    /\ Len(reports) > 1

\* the five cases in which the output folder is to be refused
Rejected(folder_path, d) ==
    \/ folder_path = "" \/ folder_path = "  "
    \/ ~d.parent_exists
    \/ d.kind = "file"
    \/ d.kind = "dir" /\ ~d.writable
    \/ d.kind = "absent" /\ ~d.parent_writable

\* C11: a run is cancelled at validation exactly when the output folder is
\* empty or blank, its parent does not exist, it names a regular file, it
\* is a directory that is not writable, or it is absent under a parent that
\* is not writable; every other run passes validation and reports the
\* normalized absolute path of the folder.
C11_ValidationCases ==
    (runs > 0 /\ pc # "validate") =>
        /\ failed_at = "validate" <=> Rejected(props.output_folder, start.disk)
        /\ ~Rejected(props.output_folder, start.disk) =>
              /\ reports[1] = Report("INFO", "/cwd/out")
              /\ props.output_folder \in {"out", "./out/"}

C11_Witness ==
    /\ pc = "create"
    /\ props.output_folder = "./out/"
    /\ disk.kind = "absent"
    /\ disk.parent_writable
    /\ reports = << Report("INFO", "/cwd/out") >>

C13_RunReleasesItsMesh ==
    (pc = "idle" /\ runs > 0) =>
        \A r \in 1..runs :
            /\ r \notin scene.meshes
            /\ ~\E o \in scene.objects : o.run = r

\* the same pair of points, in either direction
SameEdge(e, f) == e = f \/ (e[1] = f[2] /\ e[2] = f[1])

\* how often the undirected edge e occurs among the directed edges es
Occurrences(es, e) == Cardinality({i \in DOMAIN es : SameEdge(es[i], e)})

\* C14: the boundary edges returned are exactly the consecutive vertex
\* pairs (wraparound included) that occur once over all polygons, each
\* returned once, in the direction in which its polygon walks it, and in
\* the order in which they were met; no edge that occurs twice or more is
\* returned.
C14_BoundaryEdgesAreCountOne ==
    boundary_data # None =>
        LET es == AllEdges(polygons)
            b == boundary_data.boundary_edges
        IN  /\ \A k \in DOMAIN b :
                  /\ \E i \in DOMAIN es : es[i] = b[k]
                  /\ Occurrences(es, b[k]) = 1
            /\ \A i \in DOMAIN es :
                  Occurrences(es, es[i]) = 1 => \E k \in DOMAIN b : b[k] = es[i]
            /\ \A k, l \in DOMAIN b : k # l => ~SameEdge(b[k], b[l])
            /\ \A k, l \in DOMAIN b :
                  k < l => \E i, j \in DOMAIN es : i < j /\ es[i] = b[k] /\ es[j] = b[l]

C14_Witness ==
    /\ boundary_data # None
    /\ Len(polygons) = 3
    /\ Len(boundary_data.boundary_edges) = 5
    /\ \E i \in DOMAIN AllEdges(polygons) :
          Occurrences(AllEdges(polygons), AllEdges(polygons)[i]) = 2
    /\ \E k \in DOMAIN boundary_data.boundary_edges :
          LET e == boundary_data.boundary_edges[k]
          IN  ~TupleLe(e[1], e[2])

\* the sections of the canvas, as pairs <<page, place on the page>>
Places == {<<i, j>> \in (1..2) \X (1..2) :
             canvas # None /\ i \in DOMAIN canvas.pages /\ j \in DOMAIN canvas.pages[i]}

\* where a UV point belongs in the flat template (mm): the wrap outline
\* is the normalized point scaled to the wrap size, the base outline the
\* normalized point scaled to the base size and centred in the wrap size
RefPoint(uv, outline) ==
    LET b == boundary_data.bounds
        u_norm == IF b.max_u > b.min_u THEN Rat(uv[1] - b.min_u, b.max_u - b.min_u) ELSE Num(0)
        v_norm == IF b.max_v > b.min_v THEN Rat(uv[2] - b.min_v, b.max_v - b.min_v) ELSE Num(0)
        wrap_w == uv_data.wrap_width
        wrap_h == uv_data.wrap_arc_length
        base_w == uv_data.pipe_circ_mm
        base_h == uv_data.pipe_arc_mm
    IN  IF outline = "wrap"
        THEN [x_mm |-> RMul(v_norm, wrap_w), y_mm |-> RMul(u_norm, wrap_h)]
        ELSE [x_mm |-> RAdd(RMul(v_norm, base_w), RDiv(RSub(wrap_w, base_w), Num(2))),
              y_mm |-> RAdd(RMul(u_norm, base_h), RDiv(RSub(wrap_h, base_h), Num(2)))]

\* the lines a section holds for an outline
OutlineOf(sec, outline) == IF outline = "wrap" THEN sec.wrap_lines ELSE sec.base_lines

Between(x, lo, hi) == RLe(lo, x) /\ RLe(x, hi)

\* C15: in a half with range [x_start, x_end] a boundary edge is drawn
\* exactly when one of its endpoints has its x in the range or the two
\* endpoints lie outside the range on opposite sides; the same holds for
\* the base and the wrap outline, in _draw_split_half and _draw_split_page.
C15_ClipRule ==
    \A pl \in Places : \A outline \in {"base", "wrap"} :
        LET sec == canvas.pages[pl[1]][pl[2]]
            edges == boundary_data.boundary_edges
        IN  sec.half \in {"LEFT", "RIGHT"} =>
              \A k \in DOMAIN edges :
                  LET x1 == RefPoint(edges[k][1], outline).x_mm
                      x2 == RefPoint(edges[k][2], outline).x_mm
                  IN  OutlineOf(sec, outline)[k] # None <=>
                        \/ Between(x1, sec.x_start, sec.x_end)
                        \/ Between(x2, sec.x_start, sec.x_end)
                        \/ RLt(x1, sec.x_start) /\ RGt(x2, sec.x_end)
                        \/ RLt(x2, sec.x_start) /\ RGt(x1, sec.x_end)

\* an edge across the whole window from 0.3 to 0.4 of the width is drawn,
\* and an edge outside it is not
C15_Witness ==
    /\ Places # {}
    /\ canvas.pages[1][1].x_start = RMul(Rat(3, 10), uv_data.wrap_width)
    /\ canvas.pages[1][1].x_end = RMul(Rat(4, 10), uv_data.wrap_width)
    /\ Len(polygons) = 1
    /\ \E k \in DOMAIN boundary_data.boundary_edges :
          /\ RefPoint(boundary_data.boundary_edges[k][1], "wrap").x_mm = Num(0)
          /\ RefPoint(boundary_data.boundary_edges[k][2], "wrap").x_mm = uv_data.wrap_width
          /\ canvas.pages[1][1].wrap_lines[k] # None
    /\ \E k \in DOMAIN boundary_data.boundary_edges :
          canvas.pages[1][1].wrap_lines[k] = None

\* C18: in every half drawn by generate_pdf the overlap-zone rectangle is
\* split_overlap wide and wrap_height high and stands on the template's
\* lower edge; in the LEFT half its right side is the right edge of the
\* half and its left side the centerline, in the RIGHT half its left side
\* is the left edge of the half and its right side the centerline; the
\* centerline runs over the height of the template at the page x of the
\* template's midpoint wrap_width / 2.
C18_OverlapZoneAtCutEdge ==
    \A pl \in Places :
        LET sec == canvas.pages[pl[1]][pl[2]]
            z == sec.overlap_zone
            left_edge == sec.template_x
            right_edge == RAdd(sec.template_x, RMul(RSub(sec.x_end, sec.x_start), mm))
            top == RAdd(sec.template_y, RMul(uv_data.wrap_arc_length, mm))
        IN  sec.half \in {"LEFT", "RIGHT"} =>
              /\ z.width = RMul(Num(20), mm)
              /\ z.height = RMul(uv_data.wrap_arc_length, mm)
              /\ z.y = sec.template_y
              /\ sec.centerline.x =
                    RAdd(sec.template_x,
                         RMul(RSub(RDiv(uv_data.wrap_width, Num(2)), sec.x_start), mm))
              /\ sec.centerline.y1 = sec.template_y /\ sec.centerline.y2 = top
              /\ sec.half = "LEFT" =>
                    (RAdd(z.x, z.width) = right_edge /\ z.x = sec.centerline.x)
              /\ sec.half = "RIGHT" =>
                    (z.x = left_edge /\ RAdd(z.x, z.width) = sec.centerline.x)

C18_Witness ==
    /\ Drawn
    /\ Len(canvas.pages) = 1
    /\ canvas.pages[1][1].half = "LEFT"
    /\ canvas.pages[1][2].half = "RIGHT"
    /\ canvas.pages[1][1].overlap_zone.x = canvas.pages[1][1].centerline.x
    /\ canvas.pages[1][2].overlap_zone.x = canvas.pages[1][2].template_x
    /\ RGt(uv_data.wrap_arc_length, Num(0))

\* C19: every line drawn, in each of the four layout paths, joins the two
\* endpoints of its boundary edge mapped to the flat template (wrap
\* outline: normalized point times the wrap size; base outline: normalized
\* point times the base size, centred in the wrap size) and moved by the
\* section's translation: x_pt = template_x + (x_mm - x_start) * mm and
\* y_pt = template_y + y_mm * mm, with x_start = 0 in a full section; in a
\* full section every edge is drawn; the base box leaves the same room on
\* both sides of the wrap box.
C19_PointMappingSameInAllPaths ==
    \A pl \in Places : \A outline \in {"base", "wrap"} :
        LET sec == canvas.pages[pl[1]][pl[2]]
            edges == boundary_data.boundary_edges
            X(x_mm) == RAdd(sec.template_x, RMul(RSub(x_mm, sec.x_start), mm))
            Y(y_mm) == RAdd(sec.template_y, RMul(y_mm, mm))
            low == RefPoint(<<boundary_data.bounds.min_u, boundary_data.bounds.min_v>>, "base")
            high == RefPoint(<<boundary_data.bounds.max_u, boundary_data.bounds.max_v>>, "base")
        IN  /\ DOMAIN OutlineOf(sec, outline) = DOMAIN edges
            /\ sec.half = "FULL" => sec.x_start = Num(0)
            /\ \A k \in DOMAIN edges :
                  LET p1 == RefPoint(edges[k][1], outline)
                      p2 == RefPoint(edges[k][2], outline)
                      line == OutlineOf(sec, outline)[k]
                  IN  /\ sec.half = "FULL" => line # None
                      /\ line # None =>
                            line = [x1 |-> X(p1.x_mm), y1 |-> Y(p1.y_mm),
                                    x2 |-> X(p2.x_mm), y2 |-> Y(p2.y_mm)]
            /\ (boundary_data.bounds.max_u > boundary_data.bounds.min_u
                  /\ boundary_data.bounds.max_v > boundary_data.bounds.min_v) =>
                  /\ low.x_mm = RSub(uv_data.wrap_width, high.x_mm)
                  /\ low.y_mm = RSub(uv_data.wrap_arc_length, high.y_mm)

C19_Witness ==
    /\ Drawn
    /\ Len(canvas.pages) = 2
    /\ canvas.pages[2][1].half = "RIGHT"
    /\ \E k \in DOMAIN boundary_data.boundary_edges :
          /\ canvas.pages[2][1].base_lines[k] # None
          /\ canvas.pages[1][1].base_lines[k] = None
          /\ RGt(canvas.pages[2][1].base_lines[k].x1, canvas.pages[2][1].template_x)
    /\ RGt(uv_data.wrap_width, uv_data.pipe_circ_mm)

\* the vertices of a sequence of vertices
Range(f) == {f[k] : k \in DOMAIN f}

\* C20: the mesh create_pipe_segment hands over has A + 1 rings of R
\* different vertices each (A = angular_resolution, R = radial_resolution),
\* no vertex in two rings and none outside a ring; its A * R faces are
\* exactly the quads of vertices j and (j + 1) mod R of ring i and of ring
\* i + 1, one for every i and j, so every two consecutive rings are joined
\* by a closed band; no face has all its vertices in one ring; every edge
\* is a side of at most two faces.
C20_MeshTopology ==
    (pc = "unwrap" /\ segment_obj # None) =>
        LET m == segment_obj.mesh
            A == angular_resolution
            R == radial_resolution
            ring == m.all_rings
            quads == {<<ring[i][j], ring[i][(j % R) + 1], ring[i + 1][(j % R) + 1], ring[i + 1][j]>> :
                        i \in 1..A, j \in 1..R}
            sides == [f \in DOMAIN m.faces |->
                        {{m.faces[f][k], m.faces[f][(k % 4) + 1]} : k \in 1..4}]
            edges == UNION {sides[f] : f \in DOMAIN m.faces}
        IN  /\ Len(ring) = A + 1
            /\ \A i \in DOMAIN ring : Len(ring[i]) = R /\ Cardinality(Range(ring[i])) = R
            /\ \A i, k \in DOMAIN ring : i # k => Range(ring[i]) \cap Range(ring[k]) = {}
            /\ UNION {Range(ring[i]) : i \in DOMAIN ring} = DOMAIN m.verts
            /\ Cardinality(DOMAIN m.verts) = (A + 1) * R
            /\ Len(m.faces) = A * R
            /\ Range(m.faces) = quads
            /\ Cardinality(quads) = A * R
            /\ \A f \in DOMAIN m.faces : \A i \in DOMAIN ring :
                  ~(Range(m.faces[f]) \subseteq Range(ring[i]))
            /\ \A e \in edges : Cardinality({f \in DOMAIN m.faces : e \in sides[f]}) <= 2

C20_Witness ==
    /\ pc = "unwrap"
    /\ segment_obj # None
    /\ Len(segment_obj.mesh.faces) = 384
    /\ segment_obj.mesh.faces[32] = <<31, 0, 32, 63>>
    /\ props.bend_angle = Num(360)
    /\ props.num_segments = 1

\* the vertex of a ring closest to the bend axis
innermost(m, i) ==
    CHOOSE v \in Range(m.all_rings[i]) :
        \A w \in Range(m.all_rings[i]) \ {v} :
            RLt(xy_radius(m.verts[v]), xy_radius(m.verts[w]))

\* C16: once unwrap_pipe_segment has marked the seam, the marked edges are
\* exactly the edges joining the innermost vertex of each ring to the
\* innermost vertex of the next ring: one edge per ring interval, a chain
\* from the first ring to the last, no edge inside a ring and no second line.
C16_ExactlyOneSeam ==
    (segment_obj # None /\ segment_obj.seam) =>
        LET m == segment_obj.mesh
            A == angular_resolution
            inner == [i \in 1..(A + 1) |-> innermost(m, i)]
        IN  /\ m.seam = {{inner[i], inner[i + 1]} : i \in 1..A}
            /\ Cardinality(m.seam) = A
            /\ \A e \in m.seam : \A i \in 1..(A + 1) : ~(e \subseteq Range(m.all_rings[i]))
            /\ \A i \in 1..(A + 1) :
                  Cardinality({v \in Range(m.all_rings[i]) : \E e \in m.seam : v \in e}) = 1

C16_Witness ==
    /\ segment_obj # None
    /\ segment_obj.seam
    /\ props.pipe_od = Num(10)
    /\ props.bend_radius_multiplier = Rat(1, 2)
    /\ Cardinality(segment_obj.mesh.seam) = 12
    /\ {16, 48} \in segment_obj.mesh.seam
    /\ {368, 400} \in segment_obj.mesh.seam

\* the angle the mesh of the run spans: from its first ring to its last
mesh_angle == RSub(segment_obj.mesh.verts[angular_resolution * radial_resolution].angle,
                   segment_obj.mesh.verts[0].angle)

\* the angle the dimension calculator used for base_height, and for wrap_height
base_height_angle ==
    RDiv(uv_data.pipe_arc_mm, RMul(props.pipe_od, props.bend_radius_multiplier))

wrap_height_angle ==
    RDiv(uv_data.wrap_arc_length,
         RAdd(RMul(props.pipe_od, props.bend_radius_multiplier), props.wrap_thickness))

StepOrder == << "validate", "create", "unwrap", "extract", "pdf", "draw", "save" >>

StepIndex(step) == CHOOSE k \in DOMAIN StepOrder : StepOrder[k] = step

\* C21: a run is one pass through the steps in their fixed order.  A run
\* starts with validation; a step that succeeds is followed by the next
\* step of the order and by no other; a step that fails ends the run,
\* CANCELLED, with no later step run; the last step ends it FINISHED; the
\* step in hand never moves backwards or stays for a second execution,
\* and what a step produces (the object, the UV polygons, the dimensions,
\* the canvas) appears only while that step is the one in hand.
C21_SinglePassInOrder ==
    [][ /\ pc = "idle" =>
             (pc' = "idle" \/ (pc' = StepOrder[1] /\ runs' = runs + 1 /\ result' = "NONE"))
        /\ pc # "idle" =>
             /\ runs' = runs
             /\ pc' # pc
             /\ \/ /\ StepIndex(pc) < Len(StepOrder)
                   /\ pc' = StepOrder[StepIndex(pc) + 1]
                   /\ result' = "NONE"
                   /\ failed_at' = ""
                \/ /\ pc' = "idle"
                   /\ result' = "CANCELLED"
                   /\ failed_at' = pc
                \/ /\ pc = StepOrder[Len(StepOrder)]
                   /\ pc' = "idle"
                   /\ result' = "FINISHED"
             /\ segment_obj' # segment_obj => pc \in {"create", "unwrap"}
             /\ polygons' # polygons => pc = "unwrap"
             /\ (uv_data' # uv_data \/ boundary_data' # boundary_data) => pc = "extract"
             /\ canvas' # canvas => pc \in {"pdf", "draw", "save"}
      ]_vars

C21_Witness ==
    /\ pc = "idle"
    /\ result = "CANCELLED"
    /\ failed_at = "unwrap"
    /\ segment_obj # None
    /\ polygons = <<>>
    /\ uv_data = None
    /\ canvas = None
    /\ Len(reports) = 4

\* the halves of a split layout, as places of the canvas
Halves == {pl \in Places : canvas.pages[pl[1]][pl[2]].half \in {"LEFT", "RIGHT"}}

\* the band around the midline that both halves show
InBand(x) ==
    Between(x, RSub(RDiv(uv_data.wrap_width, Num(2)), Num(split_overlap)),
               RAdd(RDiv(uv_data.wrap_width, Num(2)), Num(split_overlap)))

\* C22: in both split layouts every boundary edge is drawn, for the base
\* outline and for the wrap outline, in the LEFT half or in the RIGHT half,
\* and an edge with an endpoint in the band of split_overlap on either side
\* of the midline is drawn in both.
C22_SplitLosesNoEdge ==
    (Drawn /\ Halves # {}) =>
        /\ {canvas.pages[pl[1]][pl[2]].half : pl \in Halves} = {"LEFT", "RIGHT"}
        /\ Cardinality(Halves) = 2
        /\ \A outline \in {"base", "wrap"} :
             \A k \in DOMAIN boundary_data.boundary_edges :
                 LET edge == boundary_data.boundary_edges[k]
                     x1 == RefPoint(edge[1], outline).x_mm
                     x2 == RefPoint(edge[2], outline).x_mm
                 IN  /\ \E pl \in Halves :
                           OutlineOf(canvas.pages[pl[1]][pl[2]], outline)[k] # None
                     /\ (InBand(x1) \/ InBand(x2)) =>
                           \A pl \in Halves :
                               OutlineOf(canvas.pages[pl[1]][pl[2]], outline)[k] # None

\* a split layout of the strip: the edge between 15/32 and 16/32 of the
\* width is drawn in both halves, the edge at the left end only in the LEFT
C22_Witness ==
    /\ Drawn
    /\ Cardinality(Halves) = 2
    /\ Len(polygons) = 4
    /\ \E k \in DOMAIN boundary_data.boundary_edges :
          /\ {boundary_data.boundary_edges[k][1][2], boundary_data.boundary_edges[k][2][2]} = {15, 16}
          /\ \A pl \in Halves : canvas.pages[pl[1]][pl[2]].wrap_lines[k] # None
    /\ \E k \in DOMAIN boundary_data.boundary_edges :
          /\ {boundary_data.boundary_edges[k][1][2], boundary_data.boundary_edges[k][2][2]} = {0}
          /\ \E pl \in Halves : canvas.pages[pl[1]][pl[2]].wrap_lines[k] = None
          /\ \E pl \in Halves : canvas.pages[pl[1]][pl[2]].wrap_lines[k] # None

\* the rectangle a placed section takes on its page, in points: the
\* section's width by the wrap height, at the section's page translation
SectionRect(sec) ==
    [left |-> sec.template_x,
     right |-> RAdd(sec.template_x, RMul(RSub(sec.x_end, sec.x_start), mm)),
     bottom |-> sec.template_y,
     top |-> RAdd(sec.template_y, RMul(uv_data.wrap_arc_length, mm))]

\* C23 (as claimed): on a drawn document every placed section's rectangle
\* lies inside the page: left edge >= 0, right edge <= page width, bottom
\* edge >= 0, top edge <= page height.
C23_SectionsInsidePage ==
    Drawn =>
        \A pl \in Places :
            LET r == SectionRect(canvas.pages[pl[1]][pl[2]])
            IN  /\ RLe(Num(0), r.left)
                /\ RLe(r.right, page_w)
                /\ RLe(Num(0), r.bottom)
                /\ RLe(r.top, page_h)

\* C24 (as claimed): when two sections are placed on one page
\* (SINGLE_PAGE_STACKED or SPLIT_SAME_PAGE), the lower one starts at or
\* above margin + scale_space, the upper one ends at or below
\* page_h - title_space - margin, and the upper one starts at or above the
\* end of the lower one; for every positive wrap width and height.
C24_StackedSectionsInFreeBand ==
    (/\ Drawn
     /\ Len(canvas.pages[1]) = 2
     /\ RGt(uv_data.wrap_width, Num(0))
     /\ RGt(uv_data.wrap_arc_length, Num(0))) =>
        LET lower == SectionRect(canvas.pages[1][1])
            upper == SectionRect(canvas.pages[1][2])
        IN  /\ RLe(RAdd(margin, scale_space), lower.bottom)
            /\ RLe(upper.top, RSub(RSub(page_h, title_space), margin))
            /\ RLe(lower.top, upper.bottom)

\* C25: validation changes nothing on disk; the disk changes only inside
\* generate_pdf, that is once the object has been created and unwrapped
\* and the UV data extracted; and a missing output directory comes into
\* being only in the step of generate_pdf that ensures it, as a directory.
C25_ValidationReadOnly ==
    [][ /\ pc = "validate" => disk' = disk
        /\ disk' # disk =>
             /\ pc \in {"pdf", "save"}
             /\ segment_obj # None
             /\ segment_obj.has_uv
             /\ uv_data # None
             /\ boundary_data # None
        /\ (disk.kind = "absent" /\ disk'.kind # "absent") =>
             /\ pc = "pdf"
             /\ disk'.kind = "dir"
             /\ disk'.files = disk.files
      ]_vars

\* a run that found the directory missing at validation and created it in
\* generate_pdf
C25_Witness ==
    /\ pc = "draw"
    /\ start.disk.kind = "absent"
    /\ disk.kind = "dir"
    /\ segment_obj # None
    /\ segment_obj.has_uv
    /\ uv_data # None
    /\ \E k \in DOMAIN reports : reports[k] = Report("INFO", "Created output directory")

\* the objects of a scene named PipeSegment or PipeSegment.<suffix>, and
\* the others
PipeSegments(sc) == {o \in sc.objects : o.name \in {"PipeSegment", "PipeSegment.001"}}

OtherObjects(sc) == sc.objects \ PipeSegments(sc)

AllPagesDrawn ==
    LET mode == LayoutMode(uv_data.wrap_width, uv_data.wrap_arc_length)
        same_page == mode \in {"SINGLE_PAGE_STACKED", "SPLIT_SAME_PAGE"}
    IN  /\ Len(canvas.pages) = IF same_page THEN 1 ELSE 2
        /\ \A i \in DOMAIN canvas.pages :
              Len(canvas.pages[i]) = IF same_page THEN 2 ELSE 1
        /\ Len(canvas.subtitles) = Len(canvas.pages)

\* C27: in a run the document is written at most once, in the save step,
\* with every page of the chosen layout mode on the canvas; once the
\* canvas is saved nothing is drawn on it and it is not saved again; a run
\* returns FINISHED only in the step that saved the canvas and wrote the
\* complete document.
C27_SavedOnceAfterAllPages ==
    [][ /\ (canvas # None /\ canvas' # None /\ ~canvas.saved /\ canvas'.saved) =>
             /\ pc = "save"
             /\ AllPagesDrawn
             /\ canvas'.pages = canvas.pages
        /\ (canvas # None /\ canvas.saved) => (canvas' = canvas \/ canvas' = None)
        /\ (disk'.files # disk.files \/ emitted' # emitted) =>
             /\ pc = "save"
             /\ ~canvas.saved
             /\ AllPagesDrawn
             /\ runs' = runs
             /\ Len(emitted') <= Len(emitted) + 1
        /\ (result' = "FINISHED" /\ result # "FINISHED") =>
             /\ pc = "save"
             /\ ~canvas.saved
             /\ canvas'.saved
             /\ Len(emitted') = Len(emitted) + 1
             /\ Document(canvas.path, PipeSpec(props), canvas.pages, TRUE) \in disk'.files
      ]_vars

\* a second run that finished with a document of two pages, each run
\* having saved once
C27_Witness ==
    /\ pc = "idle"
    /\ result = "FINISHED"
    /\ runs = 2
    /\ Len(emitted) = 2
    /\ canvas.saved
    /\ Len(canvas.pages) = 2
    /\ canvas.pages[2][1].half = "RIGHT"

\* C28 (as claimed): in a split layout every line drawn for a half, of the
\* base and of the wrap outline, has both endpoints between the half's
\* origin and its cut edge: page x from template_x to
\* template_x + (x_end - x_start) * mm.
C28_LinesStayInsideHalf ==
    (/\ Drawn
     /\ RGt(uv_data.wrap_width, Num(0))
     /\ RGt(uv_data.wrap_arc_length, Num(0))) =>
        \A pl \in Halves : \A outline \in {"base", "wrap"} :
            LET sec == canvas.pages[pl[1]][pl[2]]
                lines == OutlineOf(sec, outline)
                lo == sec.template_x
                hi == RAdd(sec.template_x, RMul(RSub(sec.x_end, sec.x_start), mm))
            IN  \A k \in DOMAIN lines :
                    lines[k] # None =>
                        /\ Between(lines[k].x1, lo, hi)
                        /\ Between(lines[k].x2, lo, hi)

=============================================================================
